---- MODULE Spec2Model ----
(***************************************************************************)
(* A model of quickshear.py: defacing of an anatomical volume by a shear   *)
(* plane derived from the lower convex hull of the sagittal profile of a   *)
(* brain mask, together with the command-line entry that drives it.        *)
(*                                                                         *)
(* Arrays are functions over 0-based index tuples, as in numpy.  An image  *)
(* is a record [shape, data, axes, header]; axes is what                   *)
(* nibabel.orientations.aff2axcodes yields for the image's affine, and     *)
(* stands for the affine.  Division is Python 3 true division.  The line   *)
(* values are kept as exact fractions num/den; a float64 result can differ *)
(* from the exact value only by a rounding error, which matters to `> 0`   *)
(* and to astype(int) only where the exact value is an integer and the     *)
(* slope is not a dyadic fraction: there the rounding direction is left    *)
(* open (eps in {-1, 0, 1}).                                               *)
(***************************************************************************)
EXTENDS Integers, Sequences, FiniteSets

VARIABLES
    argv,          \* command-line arguments after the program name
    anat_file,     \* the anatomical image on disk
    mask_file,     \* the mask image on disk
    out_file,      \* the defaced image on disk, NoImg while not written
    pc,            \* position of the process
    status,        \* exit status of the process, -1 while running
    err,           \* what ended the process: "" or the message / exception
    log,           \* messages emitted through the logger
    calls,         \* number of times deface was entered
    computed,      \* stages of quickshear executed in this process
    buff,          \* deface's buff parameter of the current call
    hemi,          \* orient_xPS's hemi parameter
    anat_img,      \* loaded anatomical image
    mask_img,      \* loaded mask image
    anat,          \* re-oriented anatomical data
    anat_flip,     \* flips applied to anat
    mask,          \* re-oriented mask data
    mask_flip,     \* flips applied to mask
    edgemask,      \* [shape, data]: 2D outline of the sagittal profile
    low,           \* <<xs, ys>> of the lower hull, <<>> when it is empty
    slope,         \* [num, den] of the leading hull segment
    ys,            \* [nan, vals]: the line's value at each position
    defaced_mask,  \* the keep-mask
    new_anat       \* the image quickshear returns

vars == <<argv, anat_file, mask_file, out_file, pc, status, err, log, calls,
          computed, buff, hemi, anat_img, mask_img, anat, anat_flip, mask,
          mask_flip, edgemask, low, slope, ys, defaced_mask, new_anat>>

-----------------------------------------------------------------------------
(* Bounds of the model *)

MaxDim == 3        \* largest extent of the P and S axes of a volume
MaxBrain == 2      \* largest number of nonzero voxels in a sparse mask
MaxBuff == 1       \* largest buffer given on the command line
HullDim == 3       \* largest extent of a free-standing 2D edge map
MaxPts == 5        \* largest number of nonzero pixels in such an edge map

(* Program constants *)

DefaultBuff == 10  \* deface(..., buff=10)
MinArgs == 4       \* len(sys.argv) < 4 prints the usage

-----------------------------------------------------------------------------
(* Arrays *)

Idx3(shape) == (0..(shape[1]-1)) \X (0..(shape[2]-1)) \X (0..(shape[3]-1))
Idx2(n1, n2) == (0..(n1-1)) \X (0..(n2-1))

Min(a, b) == IF a < b THEN a ELSE b

\* nibabel.orientations.flip_axis on one index component
FlipIdx(idx, shape, flips) ==
    [a \in 1..3 |-> IF flips[a] THEN shape[a] - 1 - idx[a] ELSE idx[a]]

\* flip_axes(data, flips): reverse data along every axis whose flag is set
flip_axes(data, shape, flips) ==
    [idx \in Idx3(shape) |-> data[FlipIdx(idx, shape, flips)]]

\* orient_xPS(img, hemi): flips = axes != (hemi, 'P', 'S'), elementwise
TargetCodes(h) == <<h, "P", "S">>

orient_flips(img, h) == [a \in 1..3 |-> img.axes[a] # TargetCodes(h)[a]]

orient_xPS(img, h) ==
    [data  |-> flip_axes(img.data, img.shape, orient_flips(img, h)),
     flips |-> orient_flips(img, h)]

-----------------------------------------------------------------------------
(* edge_mask *)

\* brain = mask.any(axis=0)
SagittalProfile(m, shape) ==
    [p \in Idx2(shape[2], shape[3]) |->
        IF \E i \in 0..(shape[1]-1) : m[<<i, p[1], p[2]>>] # 0 THEN 1 ELSE 0]

\* np.roll(brain, s, axis)[p]: the value s places before p, with wraparound
Roll(brain, n1, n2, s, axis, p) ==
    IF axis = 0 THEN brain[<<(p[1] - s) % n1, p[2]>>]
                ELSE brain[<<p[1], (p[2] - s) % n2>>]

edge_mask(m, shape) ==
    LET n1 == shape[2]
        n2 == shape[3]
        brain == SagittalProfile(m, shape)
    IN  [shape |-> <<n1, n2>>,
         data  |-> [p \in Idx2(n1, n2) |->
                     IF 4 * brain[p] - Roll(brain, n1, n2, 1, 0, p)
                                     - Roll(brain, n1, n2, -1, 0, p)
                                     - Roll(brain, n1, n2, 1, 1, p)
                                     - Roll(brain, n1, n2, -1, 1, p) # 0
                     THEN 1 ELSE 0]]

-----------------------------------------------------------------------------
(* convex_hull *)

\* pts = np.vstack(np.nonzero(brain)).T: the nonzero pixels in row-major
\* order of traversal
NonzeroPts(e) ==
    LET n1 == e.shape[1]
        n2 == e.shape[2]
        all == [k \in 1..(n1 * n2) |-> <<(k-1) \div n2, (k-1) % n2>>]
    IN  SelectSeq(all, LAMBDA p : e.data[p] # 0)

\* cross with its two vectors exchanged
cross_exchanged(o, a, b) ==
    (b[1] - o[1]) * (a[2] - o[2]) - (b[2] - o[2]) * (a[1] - o[1])

\* np.cross(a - o, b - o)
cross(o, a, b) == (a[1] - o[1]) * (b[2] - o[2]) - (a[2] - o[2]) * (b[1] - o[1])

\* the loop test with < 0 in place of <= 0
PopTest_strict(lower, p) ==
    Len(lower) >= 2 /\ cross(lower[Len(lower)-1], lower[Len(lower)], p) < 0

\* while len(lower) >= 2 and cross(lower[-2], lower[-1], p) <= 0: lower.pop()
PopTest(lower, p) ==
    Len(lower) >= 2 /\ cross(lower[Len(lower)-1], lower[Len(lower)], p) <= 0

RECURSIVE PopWhile(_, _)
PopWhile(lower, p) ==
    IF PopTest(lower, p) THEN PopWhile(SubSeq(lower, 1, Len(lower)-1), p)
                         ELSE lower

RECURSIVE HullLoop(_, _, _)
HullLoop(lower, pts, k) ==
    IF k > Len(pts) THEN lower
    ELSE HullLoop(Append(PopWhile(lower, pts[k]), pts[k]), pts, k + 1)

LowerHull(e) == HullLoop(<<>>, NonzeroPts(e), 1)

\* np.array(lower).T: row 0 the first coordinates, row 1 the second ones;
\* an empty list gives an empty 1-D array
Transpose(lower) ==
    IF lower = <<>> THEN <<>>
    ELSE <<[k \in 1..Len(lower) |-> lower[k][1]],
           [k \in 1..Len(lower) |-> lower[k][2]]>>

convex_hull(e) == Transpose(LowerHull(e))

-----------------------------------------------------------------------------
(* quickshear: the shear line *)

\* astype(int): truncation toward zero of num/den, den > 0
Trunc(num, den) == IF num >= 0 THEN num \div den ELSE -((-num) \div den)

\* slope = ydiffs[0] / xdiffs[0] of np.diff(low); den = 0 is a division of
\* a nonzero integer by zero, which numpy answers with inf and a warning
LeadingSlope(lo) == [num |-> lo[2][2] - lo[2][1], den |-> lo[1][2] - lo[1][1]]

\* the intercept with the buffer added instead of subtracted
Intercept_plus(lo, sl, b) ==
    [num |-> (lo[2][1] + b) * sl.den - lo[1][1] * sl.num, den |-> sl.den]

\* yint = low[1][0] - (low[0][0] * slope) - buff, over the denominator of
\* slope
Intercept(lo, sl, b) ==
    [num |-> (lo[2][1] - b) * sl.den - lo[1][1] * sl.num, den |-> sl.den]

\* np.arange(0, n) * slope + yint: the entry of position i is vals[i + 1]
LineVals(sl, yint, n) ==
    [k \in 1..n |-> [num |-> (k - 1) * sl.num + yint.num, den |-> sl.den]]

\* a float64 slope is exact iff the fraction is dyadic; extents are far
\* below 2^10
Dyadic(sl) == (1024 * sl.num) % sl.den = 0

\* the rounding directions float64 arithmetic can take at each position
Roundings(sl, vals) ==
    {e \in [1..Len(vals) -> {-1, 0, 1}] :
        \A k \in 1..Len(vals) :
            e[k] # 0 => (~Dyadic(sl) /\ vals[k].num % vals[k].den = 0)}

\* the values ys can take: all NaN when the run of the leading segment is
\* zero, else the line's values under every rounding
YsChoices(lo, b, n) ==
    LET sl == LeadingSlope(lo)
        vals == LineVals(sl, Intercept(lo, sl, b), n)
    IN  IF sl.den = 0 THEN {[nan |-> TRUE, vals |-> <<>>]}
        ELSE {[nan  |-> FALSE,
               vals |-> [k \in 1..n |-> [num |-> vals[k].num, den |-> vals[k].den,
                                          eps |-> e[k]]]] :
                e \in Roundings(sl, vals)}

\* ys > 0
Positive(v) == v.num > 0 \/ (v.num = 0 /\ v.eps = 1)

\* ys.astype(int)
AsInt(v) ==
    LET t == Trunc(v.num, v.den)
        whole == v.num % v.den = 0
    IN  IF whole /\ v.eps = -1 /\ t >= 1 THEN t - 1
        ELSE IF whole /\ v.eps = 1 /\ t <= -1 THEN t + 1
        ELSE t

\* np.nonzero(ys > 0)[0]: the positions, ascending, whose value is positive;
\* a NaN compares false
PositivePositions(y) ==
    IF y.nan THEN <<>>
    ELSE SelectSeq([k \in 1..Len(y.vals) |-> k - 1],
                   LAMBDA x : Positive(y.vals[x + 1]))

\* zip(np.nonzero(ys > 0)[0], ys.astype(int)): the k-th positive position
\* with the k-th entry of ys
ZipPairs(y) ==
    LET pos == PositivePositions(y)
    IN  [k \in 1..Len(pos) |-> [x |-> pos[k], y |-> AsInt(y.vals[k])]]

\* the indices a slice [:y] selects on an axis of length n
SliceTo(y, n) == IF y >= 0 THEN 0..(Min(y, n) - 1) ELSE 0..(n + y - 1)

\* defaced_mask[:, x, :y] = 0 raises IndexError when x is no index of axis 1
ShearRaises(y, shape) ==
    \E k \in 1..Len(ZipPairs(y)) : ZipPairs(y)[k].x >= shape[2]

\* defaced_mask after the loop over the zipped pairs
Rasterise(y, shape) ==
    LET pairs == ZipPairs(y)
    IN  [idx \in Idx3(shape) |->
            ~ \E k \in 1..Len(pairs) :
                /\ pairs[k].x = idx[2]
                /\ idx[3] \in SliceTo(pairs[k].y, shape[3])]

\* defaced_mask * anat
Multiply(keep, data, shape) ==
    [idx \in Idx3(shape) |-> IF keep[idx] THEN data[idx] ELSE 0]

-----------------------------------------------------------------------------
(* Inputs *)

NoImg == [shape |-> <<0, 0, 0>>, data |-> <<>>, axes |-> <<>>, header |-> ""]
NoEdge == [shape |-> <<0, 0>>, data |-> <<>>]
NoSlope == [num |-> 0, den |-> 1]
NoYs == [nan |-> FALSE, vals |-> <<>>]
NoFlips == <<FALSE, FALSE, FALSE>>

Depths == {1, 2}   \* extents of the sagittal axis
Shapes == Depths \X (1..MaxDim) \X (1..MaxDim)
FlatShapes == {1} \X (1..MaxDim) \X (1..MaxDim)

\* an anatomical volume whose voxels are nonzero and pairwise distinct
AnatData(shape) ==
    [idx \in Idx3(shape) |->
        1 + idx[1] * shape[2] * shape[3] + idx[2] * shape[3] + idx[3]]

\* a mask that is nonzero exactly on the voxels of S
MaskData(shape, S) == [idx \in Idx3(shape) |-> IF idx \in S THEN 1 ELSE 0]

RECURSIVE SubsetsUpTo(_, _)
SubsetsUpTo(S, n) ==
    IF n = 0 THEN {{}}
    ELSE LET smaller == SubsetsUpTo(S, n - 1)
         IN  smaller \cup {T \cup {x} : T \in smaller, x \in S}

\* the nonzero voxels of a mask: few of them, or all but at most one, or
\* at most one
SparseBrains(shape) == SubsetsUpTo(Idx3(shape), MaxBrain)
DenseBrains(shape) == {Idx3(shape) \ S : S \in SubsetsUpTo(Idx3(shape), 1)}
PointBrains(shape) == SubsetsUpTo(Idx3(shape), 1)

\* the 8 reflections of (R, P, S), and all 48 axis codes
Reflections == {"R", "L"} \X {"P", "A"} \X {"S", "I"}
Opposite(c) ==
    CASE c = "R" -> "L" [] c = "L" -> "R" [] c = "P" -> "A"
      [] c = "A" -> "P" [] c = "S" -> "I" [] c = "I" -> "S"
AxisOf(c) == IF c \in {"R", "L"} THEN 1 ELSE IF c \in {"P", "A"} THEN 2 ELSE 3
Codes == {"R", "L", "P", "A", "S", "I"}
AxCodes ==
    {c \in Codes \X Codes \X Codes :
        {AxisOf(c[1]), AxisOf(c[2]), AxisOf(c[3])} = {1, 2, 3}}

\* (anatomical, mask) axis codes of the files given to the program
OrientPairs ==
    {<<a, a>> : a \in Reflections}
        \cup {<<<<"R", "P", "S">>, <<"L", "A", "S">>>>,
              <<<<"L", "A", "S">>, <<"R", "P", "S">>>>,
              <<<<"P", "R", "S">>, <<"P", "R", "S">>>>}

\* decimal text of the small integers, and int() of a text
Decimal == <<"0", "1", "2", "3", "4", "5", "6", "7", "8", "9">>
IsInt(s) == \E k \in 1..Len(Decimal) : Decimal[k] = s
IntOf(s) == (CHOOSE k \in 1..Len(Decimal) : Decimal[k] = s) - 1

Files == <<"quickshear.py", "anat", "mask", "defaced">>
ArgvRun == {Files} \cup {Append(Files, Decimal[b + 1]) : b \in 0..MaxBuff}
ArgvBad == {SubSeq(Files, 1, 3), Append(Files, "ten")}

Quiet ==
    /\ out_file = NoImg /\ pc = "main" /\ status = -1 /\ err = "" /\ log = <<>>
    /\ calls = 0 /\ computed = {} /\ buff = DefaultBuff /\ hemi = "R"
    /\ anat_img = NoImg /\ mask_img = NoImg
    /\ anat = <<>> /\ anat_flip = NoFlips /\ mask = <<>> /\ mask_flip = NoFlips
    /\ edgemask = NoEdge /\ low = <<>> /\ slope = NoSlope /\ ys = NoYs
    /\ defaced_mask = <<>> /\ new_anat = NoImg

Img(shape, data, axes, header) ==
    [shape |-> shape, data |-> data, axes |-> axes, header |-> header]

\* volumes in the canonical orientation: every sparse and every dense mask,
\* with and without a buffer argument
InitRun ==
    \E shape \in FlatShapes :
      \E S \in SparseBrains(shape) \cup DenseBrains(shape) :
        /\ argv \in ArgvRun
        /\ anat_file = Img(shape, AnatData(shape), <<"R", "P", "S">>, "anat")
        /\ mask_file = Img(shape, MaskData(shape, S), <<"R", "P", "S">>, "mask")
        /\ Quiet

\* volumes in every orientation pair, the mask of at most one voxel
InitOriented ==
    \E shape \in Shapes, o \in OrientPairs :
      \E S \in PointBrains(shape) :
        /\ argv = Append(Files, Decimal[1])
        /\ anat_file = Img(shape, AnatData(shape), o[1], "anat")
        /\ mask_file = Img(shape, MaskData(shape, S), o[2], "mask")
        /\ Quiet

\* volumes of different shapes
InitMismatch ==
    \E s1 \in Shapes, s2 \in Shapes :
        /\ s1 # s2
        /\ argv \in ArgvRun
        /\ anat_file = Img(s1, AnatData(s1), <<"R", "P", "S">>, "anat")
        /\ mask_file = Img(s2, MaskData(s2, {<<0, 0, 0>>}), <<"R", "P", "S">>, "mask")
        /\ Quiet

\* too few arguments, or a buffer that is no integer
InitBadArgs ==
    /\ argv \in ArgvBad
    /\ anat_file = Img(<<1, 1, 1>>, AnatData(<<1, 1, 1>>), <<"R", "P", "S">>, "anat")
    /\ mask_file = Img(<<1, 1, 1>>, MaskData(<<1, 1, 1>>, {<<0, 0, 0>>}),
                       <<"R", "P", "S">>, "mask")
    /\ Quiet

Init == InitRun \/ InitOriented \/ InitMismatch \/ InitBadArgs

-----------------------------------------------------------------------------
(* The process *)

Exit(code, why) == pc' = "exit" /\ status' = code /\ err' = why

\* __main__, lines 172-175: fewer than 4 arguments
Usage ==
    /\ pc = "main"
    /\ Len(argv) < MinArgs
    /\ log' = Append(log, "Usage")
    /\ Exit(255, "usage")
    /\ UNCHANGED <<argv, anat_file, mask_file, out_file, calls, computed, buff,
                   hemi, anat_img, mask_img, anat, anat_flip, mask, mask_flip,
                   edgemask, low, slope, ys, defaced_mask, new_anat>>

\* __main__, lines 180-184: int(sys.argv[4]) fails and ValueError is raised
BadBuffer ==
    /\ pc = "main"
    /\ Len(argv) >= MinArgs + 1
    /\ ~IsInt(argv[5])
    /\ Exit(1, "ValueError")
    /\ UNCHANGED <<argv, anat_file, mask_file, out_file, log, calls, computed,
                   buff, hemi, anat_img, mask_img, anat, anat_flip, mask,
                   mask_flip, edgemask, low, slope, ys, defaced_mask, new_anat>>

\* __main__, lines 180-185: deface(anatfile, stripfile, newfile, buff)
CallWithBuffer ==
    /\ pc = "main"
    /\ Len(argv) >= MinArgs + 1
    /\ IsInt(argv[5])
    /\ buff' = IntOf(argv[5])
    /\ calls' = calls + 1
    /\ pc' = "deface"
    /\ UNCHANGED <<argv, anat_file, mask_file, out_file, status, err, log,
                   computed, hemi, anat_img, mask_img, anat, anat_flip, mask,
                   mask_flip, edgemask, low, slope, ys, defaced_mask, new_anat>>

\* __main__, line 186: deface(anatfile, stripfile, newfile), reached when no
\* buffer was given and also when the call of line 185 has returned
CallDefault ==
    /\ \/ pc = "main" /\ Len(argv) = MinArgs
       \/ pc = "returned" /\ calls = 1 /\ Len(argv) >= MinArgs + 1
    /\ buff' = DefaultBuff
    /\ calls' = calls + 1
    /\ pc' = "deface"
    /\ UNCHANGED <<argv, anat_file, mask_file, out_file, status, err, log,
                   computed, hemi, anat_img, mask_img, anat, anat_flip, mask,
                   mask_flip, edgemask, low, slope, ys, defaced_mask, new_anat>>

\* the script ends after line 186
Finish ==
    /\ pc = "returned"
    /\ ~(calls = 1 /\ Len(argv) >= MinArgs + 1)
    /\ Exit(0, "")
    /\ UNCHANGED <<argv, anat_file, mask_file, out_file, log, calls, computed,
                   buff, hemi, anat_img, mask_img, anat, anat_flip, mask,
                   mask_flip, edgemask, low, slope, ys, defaced_mask, new_anat>>

\* the comparison on the first two extents only
SameShape_leading(a, m) ==
    a.shape[1] = m.shape[1] /\ a.shape[2] = m.shape[2]

\* deface, line 153: anat_img.shape != mask_img.shape, negated
SameShape(a, m) == a.shape = m.shape

\* deface, lines 150-151: nb.load of both files
Load ==
    /\ pc = "deface"
    /\ anat_img' = anat_file
    /\ mask_img' = mask_file
    /\ pc' = "loaded"
    /\ UNCHANGED <<argv, anat_file, mask_file, out_file, status, err, log,
                   calls, computed, buff, hemi, anat, anat_flip, mask,
                   mask_flip, edgemask, low, slope, ys, defaced_mask, new_anat>>

\* deface, lines 153-156: shapes differ, warning and sys.exit(-1)
ShapeMismatch ==
    /\ pc = "loaded"
    /\ ~SameShape(anat_img, mask_img)
    /\ log' = Append(log, "Anatomical and mask images do not have the same dimensions.")
    /\ Exit(255, "shape mismatch")
    /\ UNCHANGED <<argv, anat_file, mask_file, out_file, calls, computed, buff,
                   hemi, anat_img, mask_img, anat, anat_flip, mask, mask_flip,
                   edgemask, low, slope, ys, defaced_mask, new_anat>>

\* quickshear, lines 121-122, entered from deface line 158
Orient ==
    /\ pc = "loaded"
    /\ SameShape(anat_img, mask_img)
    /\ anat' = orient_xPS(anat_img, "R").data
    /\ anat_flip' = orient_xPS(anat_img, "R").flips
    /\ mask' = orient_xPS(mask_img, "R").data
    /\ mask_flip' = orient_xPS(mask_img, "R").flips
    /\ computed' = computed \cup {"orient"}
    /\ pc' = "oriented"
    /\ UNCHANGED <<argv, anat_file, mask_file, out_file, status, err, log,
                   calls, buff, hemi, anat_img, mask_img, edgemask, low, slope,
                   ys, defaced_mask, new_anat>>

\* quickshear, line 124
EdgeMask ==
    /\ pc = "oriented"
    /\ edgemask' = edge_mask(mask, mask_img.shape)
    /\ computed' = computed \cup {"edge"}
    /\ pc' = "edges"
    /\ UNCHANGED <<argv, anat_file, mask_file, out_file, status, err, log,
                   calls, buff, hemi, anat_img, mask_img, anat, anat_flip, mask,
                   mask_flip, low, slope, ys, defaced_mask, new_anat>>

\* quickshear, line 125
ConvexHull ==
    /\ pc = "edges"
    /\ low' = convex_hull(edgemask)
    /\ computed' = computed \cup {"hull"}
    /\ pc' = "hull"
    /\ UNCHANGED <<argv, anat_file, mask_file, out_file, status, err, log,
                   calls, buff, hemi, anat_img, mask_img, anat, anat_flip, mask,
                   mask_flip, edgemask, slope, ys, defaced_mask, new_anat>>

\* quickshear, lines 126-127 on a hull without a segment: an empty hull
\* cannot be unpacked into xdiffs, ydiffs (ValueError), a hull of one point
\* has no xdiffs[0] (IndexError; edge_mask never yields a single pixel, so
\* only a direct caller of quickshear's steps could meet it)
NoSegment ==
    /\ pc = "hull"
    /\ \/ low = <<>> /\ Exit(1, "ValueError")
       \/ low # <<>> /\ Len(low[1]) = 1 /\ Exit(1, "IndexError")
    /\ UNCHANGED <<argv, anat_file, mask_file, out_file, log, calls, computed,
                   buff, hemi, anat_img, mask_img, anat, anat_flip, mask,
                   mask_flip, edgemask, low, slope, ys, defaced_mask, new_anat>>

\* quickshear, lines 126-131: slope, intercept, the line's values and the
\* all-true keep-mask.  With a zero run the slope is inf, the intercept is
\* -inf or NaN, and every line value is NaN
Line ==
    /\ pc = "hull"
    /\ low # <<>>
    /\ Len(low[1]) >= 2
    /\ slope' = LeadingSlope(low)
    /\ ys' \in YsChoices(low, buff, mask_img.shape[3])
    /\ defaced_mask' = [idx \in Idx3(mask_img.shape) |-> TRUE]
    /\ computed' = computed \cup {"line"}
    /\ pc' = "line"
    /\ UNCHANGED <<argv, anat_file, mask_file, out_file, status, err, log,
                   calls, buff, hemi, anat_img, mask_img, anat, anat_flip, mask,
                   mask_flip, edgemask, low, new_anat>>

\* quickshear, lines 133-134, a position that is no index of axis 1
ShearIndexError ==
    /\ pc = "line"
    /\ ShearRaises(ys, mask_img.shape)
    /\ Exit(1, "IndexError")
    /\ UNCHANGED <<argv, anat_file, mask_file, out_file, log, calls, computed,
                   buff, hemi, anat_img, mask_img, anat, anat_flip, mask,
                   mask_flip, edgemask, low, slope, ys, defaced_mask, new_anat>>

\* quickshear, lines 133-134: the loop over the zipped pairs
Shear ==
    /\ pc = "line"
    /\ ~ShearRaises(ys, mask_img.shape)
    /\ defaced_mask' = Rasterise(ys, mask_img.shape)
    /\ computed' = computed \cup {"shear"}
    /\ pc' = "sheared"
    /\ UNCHANGED <<argv, anat_file, mask_file, out_file, status, err, log,
                   calls, buff, hemi, anat_img, mask_img, anat, anat_flip, mask,
                   mask_flip, edgemask, low, slope, ys, new_anat>>

\* the return with the mask's flips undone instead of the anatomical's
Return_mask_flip ==
    /\ pc = "sheared"
    /\ new_anat' = [shape  |-> mask_img.shape,
                    data   |-> flip_axes(Multiply(defaced_mask, anat, mask_img.shape),
                                         mask_img.shape, mask_flip),
                    axes   |-> anat_img.axes,
                    header |-> anat_img.header]
    /\ pc' = "built"
    /\ UNCHANGED <<argv, anat_file, mask_file, out_file, status, err, log,
                   calls, computed, buff, hemi, anat_img, mask_img, anat,
                   anat_flip, mask, mask_flip, edgemask, low, slope, ys,
                   defaced_mask>>

\* quickshear, lines 136-137
Return ==
    /\ pc = "sheared"
    /\ new_anat' = [shape  |-> mask_img.shape,
                    data   |-> flip_axes(Multiply(defaced_mask, anat, mask_img.shape),
                                         mask_img.shape, anat_flip),
                    axes   |-> anat_img.axes,
                    header |-> anat_img.header]
    /\ pc' = "built"
    /\ UNCHANGED <<argv, anat_file, mask_file, out_file, status, err, log,
                   calls, computed, buff, hemi, anat_img, mask_img, anat,
                   anat_flip, mask, mask_flip, edgemask, low, slope, ys,
                   defaced_mask>>

\* deface, lines 159-160
Save ==
    /\ pc = "built"
    /\ out_file' = new_anat
    /\ log' = Append(log, "Defaced file: defaced")
    /\ pc' = "returned"
    /\ UNCHANGED <<argv, anat_file, mask_file, status, err, calls, computed,
                   buff, hemi, anat_img, mask_img, anat, anat_flip, mask,
                   mask_flip, edgemask, low, slope, ys, defaced_mask, new_anat>>

Next ==
    \/ Usage \/ BadBuffer \/ CallWithBuffer \/ CallDefault \/ Finish
    \/ Load \/ ShapeMismatch \/ Orient \/ EdgeMask \/ ConvexHull
    \/ NoSegment \/ Line \/ ShearIndexError \/ Shear \/ Return \/ Save

Spec == Init /\ [][Next]_vars

-----------------------------------------------------------------------------
(* convex_hull on its own: every 2D map of few nonzero pixels *)

InitHull ==
    /\ argv = Files /\ anat_file = NoImg /\ mask_file = NoImg
    /\ out_file = NoImg /\ status = -1 /\ err = "" /\ log = <<>>
    /\ calls = 0 /\ computed = {} /\ buff = DefaultBuff /\ hemi = "R"
    /\ anat_img = NoImg /\ mask_img = NoImg
    /\ anat = <<>> /\ anat_flip = NoFlips /\ mask = <<>> /\ mask_flip = NoFlips
    /\ low = <<>> /\ slope = NoSlope /\ ys = NoYs
    /\ defaced_mask = <<>> /\ new_anat = NoImg
    /\ pc = "edges"
    /\ \E n1 \in 1..HullDim, n2 \in 1..HullDim :
         \E S \in SUBSET Idx2(n1, n2) :
            /\ Cardinality(S) <= MaxPts
            /\ edgemask = [shape |-> <<n1, n2>>,
                           data  |-> [p \in Idx2(n1, n2) |->
                                        IF p \in S THEN 1 ELSE 0]]

NextHull == ConvexHull

SpecHull == InitHull /\ [][NextHull]_vars

-----------------------------------------------------------------------------
(* orient_xPS on its own: every orientation, both hemispheres *)

InitOrient ==
    /\ argv = Files /\ mask_file = NoImg
    /\ out_file = NoImg /\ status = -1 /\ err = "" /\ log = <<>>
    /\ calls = 0 /\ computed = {} /\ buff = DefaultBuff
    /\ mask_img = NoImg
    /\ anat = <<>> /\ anat_flip = NoFlips /\ mask = <<>> /\ mask_flip = NoFlips
    /\ edgemask = NoEdge /\ low = <<>> /\ slope = NoSlope /\ ys = NoYs
    /\ defaced_mask = <<>> /\ new_anat = NoImg
    /\ pc = "orient_xPS"
    /\ hemi \in {"R", "L"}
    /\ \E shape \in Shapes, axes \in AxCodes :
          /\ anat_file = Img(shape, AnatData(shape), axes, "anat")
          /\ anat_img = anat_file

\* orient_xPS(img, hemi), lines 98-101
OrientCall ==
    /\ pc = "orient_xPS"
    /\ anat' = orient_xPS(anat_img, hemi).data
    /\ anat_flip' = orient_xPS(anat_img, hemi).flips
    /\ pc' = "orient_returned"
    /\ UNCHANGED <<argv, anat_file, mask_file, out_file, status, err, log,
                   calls, computed, buff, hemi, anat_img, mask_img, mask,
                   mask_flip, edgemask, low, slope, ys, defaced_mask, new_anat>>

NextOrient == OrientCall

SpecOrient == InitOrient /\ [][NextOrient]_vars

-----------------------------------------------------------------------------
(* Properties *)

\* number of voxels of a keep-mask that are false
Zeroed(keep, shape) == Cardinality({idx \in Idx3(shape) : ~keep[idx]})

\* the mask, in the orientation quickshear works in, is zero wherever the
\* index along the second or the third axis is 0
ClearOfLowBorder ==
    \A idx \in Idx3(mask_img.shape) : mask[idx] # 0 => idx[2] > 0 /\ idx[3] > 0

\* the voxels quickshear's mask marks as brain are unchanged in the output
BrainKept ==
    \A idx \in Idx3(mask_img.shape) :
        mask[idx] # 0 =>
            LET j == FlipIdx(idx, mask_img.shape, anat_flip)
            IN  new_anat.data[j] = anat_img.data[j]

\* C1 as stated: whenever quickshear returns a volume for a mask whose hull
\* has a leading segment of nonzero run, the output equals the anatomical
\* input at every voxel where the mask is nonzero.
C1_BrainPreserved == (pc = "built" /\ slope.den # 0) => BrainKept

\* C1 amended: the same, for masks that are zero on index 0 of the second
\* and of the third axis of the orientation quickshear works in.
C1_BrainPreservedOffBorder ==
    (pc = "built" /\ slope.den # 0 /\ ClearOfLowBorder) => BrainKept

C1_Witness ==
    /\ pc = "built" /\ slope.den # 0 /\ ClearOfLowBorder
    /\ \E idx \in Idx3(mask_img.shape) : mask[idx] # 0
    /\ \E idx \in Idx3(mask_img.shape) : ~defaced_mask[idx]

\* C2 as stated: after the loop, the keep-mask is false at a voxel exactly
\* when the line's value at the voxel's own position is positive and the
\* voxel's index along the cut axis is below that value truncated.
C2_RasterisedByOwnPosition ==
    (pc = "sheared" /\ ~ys.nan) =>
        \A idx \in Idx3(mask_img.shape) :
            defaced_mask[idx] =
                ~ /\ idx[2] < Len(ys.vals)
                  /\ Positive(ys.vals[idx[2] + 1])
                  /\ idx[3] < AsInt(ys.vals[idx[2] + 1])

\* the hull quickshear computed has no leading segment of nonzero run
Degenerate ==
    \/ low = <<>>
    \/ Len(low[1]) < 2
    \/ low[1][2] - low[1][1] = 0

\* C3 as stated: with fewer than 2 hull points, or a leading segment of
\* zero run, quickshear ends in an error other than the shape mismatch and
\* builds no line, no keep-mask and no output.
C3_DegenerateIsFatal ==
    ("hull" \in computed /\ pc \in {"hull", "line", "sheared", "built", "exit"}
        /\ Degenerate) =>
        /\ pc \in {"hull", "exit"}
        /\ computed \cap {"line", "shear"} = {}
        /\ out_file = NoImg
        /\ pc = "exit" => (status # 0 /\ err \notin {"", "shape mismatch"})

\* what deface leaves on disk for the loaded volumes and a buffer b
Outputs(b) ==
    LET shape == mask_file.shape
        a == orient_xPS(anat_file, "R")
        m == orient_xPS(mask_file, "R")
        lo == convex_hull(edge_mask(m.data, shape))
    IN  {Img(shape,
             flip_axes(Multiply(Rasterise(y, shape), a.data, shape), shape, a.flips),
             anat_file.axes, anat_file.header) :
            y \in {z \in YsChoices(lo, b, shape[3]) : ~ShearRaises(z, shape)}}

\* C4 as stated: a run given a valid integer buffer that ends with success
\* has entered deface once, with that buffer, and the output file is the
\* one computed with that buffer.
C4_BufferHonoured ==
    (pc = "exit" /\ status = 0 /\ Len(argv) = MinArgs + 1) =>
        /\ calls = 1
        /\ buff = IntOf(argv[5])
        /\ out_file \in Outputs(IntOf(argv[5]))

\* the keep-masks a buffer b yields for the hull at hand
KeepMasks(b) ==
    {Rasterise(y, mask_img.shape) :
        y \in {z \in YsChoices(low, b, mask_img.shape[3]) :
                 ~ShearRaises(z, mask_img.shape)}}

FlippedCodes(axes, flips) ==
    [a \in 1..3 |-> IF flips[a] THEN Opposite(axes[a]) ELSE axes[a]]

\* C6 as stated: the array orient_xPS returns has its axes in the
\* directions (hemi, P, S).
C6_ReachesCanonicalFrame ==
    pc = "orient_returned" =>
        \A a \in 1..3 :
            FlippedCodes(anat_img.axes, anat_flip)[a] = TargetCodes(hemi)[a]

\* C7: the volume quickshear returns has the shape, affine and header of
\* the anatomical input, and each of its voxels is 0 or the input's voxel
\* at the same index.
C7_OutputFrame ==
    pc = "built" =>
        /\ new_anat.shape = anat_img.shape
        /\ new_anat.axes = anat_img.axes
        /\ new_anat.header = anat_img.header
        /\ DOMAIN new_anat.data = Idx3(anat_img.shape)
        /\ \A idx \in Idx3(anat_img.shape) :
              new_anat.data[idx] \in {0, anat_img.data[idx]}

C7_Witness ==
    /\ pc = "built"
    /\ anat_flip[2] /\ ~mask_flip[2]
    /\ \E idx \in Idx3(anat_img.shape) : new_anat.data[idx] = 0
    /\ \E idx \in Idx3(anat_img.shape) : new_anat.data[idx] # 0

\* C8: when the two volumes differ in shape, the process loads both, runs
\* no stage of quickshear, writes no output, and its only exit is the
\* nonzero one of the first deface call.
C8_MismatchFailsFast ==
    (anat_file.shape # mask_file.shape /\ Len(argv) >= MinArgs) =>
        /\ pc \in {"main", "deface", "loaded", "exit"}
        /\ computed = {}
        /\ out_file = NoImg
        /\ pc = "loaded" => ENABLED ShapeMismatch
        /\ pc = "exit" =>
              /\ status # 0
              /\ calls = 1
              /\ anat_img = anat_file /\ mask_img = mask_file

C8_Witness ==
    /\ anat_file.shape # mask_file.shape
    /\ pc = "exit" /\ err = "shape mismatch" /\ Len(argv) = MinArgs + 1

LexLess(p, q) == p[1] < q[1] \/ (p[1] = q[1] /\ p[2] < q[2])

\* the hull as a sequence of points
HullPts == IF low = <<>> THEN <<>>
           ELSE [k \in 1..Len(low[1]) |-> <<low[1][k], low[2][k]>>]

NotAllCollinear(P) ==
    \E i, j, k \in 1..Len(P) : cross(P[i], P[j], P[k]) # 0

\* C9: for an edge map of at least two nonzero pixels, not all collinear,
\* the pixels are met in ascending lexicographic order, and the hull is a
\* chain of input points from the smallest to the largest, ascending, that
\* turns strictly counter-clockwise at every vertex and has every input
\* point on or to the left of each of its segments.
C9_LowerHull ==
    LET P == NonzeroPts(edgemask)
        H == HullPts
        n == Len(HullPts)
    IN  (pc = "hull" /\ Len(P) >= 2 /\ NotAllCollinear(P)) =>
            /\ \A i, j \in 1..Len(P) : i < j => LexLess(P[i], P[j])
            /\ n >= 2
            /\ H[1] = P[1] /\ H[n] = P[Len(P)]
            /\ \A k \in 1..n : \E i \in 1..Len(P) : H[k] = P[i]
            /\ \A k \in 1..(n - 1) : LexLess(H[k], H[k + 1])
            /\ \A k \in 1..(n - 2) : cross(H[k], H[k + 1], H[k + 2]) > 0
            /\ \A k \in 1..(n - 1) : \A i \in 1..Len(P) :
                  cross(H[k], H[k + 1], P[i]) >= 0

C9_Witness ==
    /\ pc = "hull"
    /\ NotAllCollinear(NonzeroPts(edgemask))
    /\ Len(HullPts) >= 3
    /\ Len(HullPts) < Len(NonzeroPts(edgemask))

\* C10 as stated: the line is evaluated at as many positions as the axis
\* its positions index is long, and no position written is out of range.
C10_IndexSafe ==
    /\ (pc \in {"line", "sheared"} /\ ~ys.nan) =>
          /\ Len(ys.vals) = mask_img.shape[2]
          /\ ~ShearRaises(ys, mask_img.shape)
    /\ ~(pc = "exit" /\ err = "IndexError")

====
